---- MODULE Spec2Model ----
(***************************************************************************)
(* Model of casklabels.py: create_labels reads a label-type file and a     *)
(* field file, then add_labels pulls records one at a time from read_beers *)
(* (read_csv, optionally wrapped by the repeat_casks generator) and draws  *)
(* each on a canvas, one label per grid slot.                              *)
(*                                                                         *)
(* Lengths are integers in canvas units (the float()/units.mm scaling of   *)
(* the source is a fixed positive factor and is left out).  The canvas is  *)
(* a recording double of reportlab's Canvas: it keeps the current          *)
(* translation, the saved-state stack, the committed page count and the    *)
(* list of calls made on it.                                               *)
(***************************************************************************)
EXTENDS Integers, Sequences, FiniteSets, TLC

\* ------------------------------------------------------------- bounds
MaxCols == 2
MaxRows == 2
MaxFields == 2
MaxRecords == 2
MaxQty == 3
GeomMaxCols == 3
GeomMaxRows == 3
MaxLabelNumber == 20

VARIABLES
    pc,            \* position of create_labels / add_labels
    exc,           \* the exception that ended the run, or None
    log,           \* messages passed to logger.error, in order
    label_type,    \* the LabelType instance in use
    label_fields,  \* the list of LabelField instances
    canvas,        \* the canvas (recording double)
    gen,           \* read_beers' generator chain and enumerate's counter
    heap,          \* the row dictionaries read_csv created, by reference
    locals,        \* add_labels' loop variables that are bound: i, data_fields
    fieldIdx,      \* position of the inner loop over label_field_list
    source,        \* history: the rows of the data file read so far
    yielded,       \* history: each record as add_labels received it
    slots          \* history: per label started, the column and row that
                   \* start_label computed and the pages committed by then

vars == <<pc, exc, log, label_type, label_fields, canvas, gen, heap, locals,
          fieldIdx, source, yielded, slots>>

None == "None"
NoneSize == <<>>
EmptyDict == [c \in {} |-> 0]

Min(a, b) == IF a < b THEN a ELSE b

\* ------------------------------------------------- int() / float() / str()
Digits == <<"0", "1", "2", "3", "4", "5", "6", "7", "8", "9">>
IntRange == -9 .. 9
DecStr(n) == IF n < 0 THEN "-" \o Digits[1 - n] ELSE Digits[n + 1]
IsInt(s) == \E n \in IntRange : DecStr(n) = s
IntOf(s) == CHOOSE n \in IntRange : DecStr(n) = s

\* ------------------------------------------------------ dictionaries
Dict(header, row) ==
    LET n == Min(Len(header), Len(row))
    IN  [c \in {header[j] : j \in 1 .. n} |->
            row[CHOOSE j \in 1 .. n : header[j] = c]]
SetItem(d, k, v) == [c \in DOMAIN d \cup {k} |-> IF c = k THEN v ELSE d[c]]

\* ------------------------------------------------------------ canvas
Call(op, x, y, k, text) == [op |-> op, x |-> x, y |-> y, k |-> k, text |-> text]
NewCanvas ==
    [ctm |-> <<0, 0>>, gstack |-> <<>>, pages |-> 0, pageSize |-> NoneSize,
     saved |-> FALSE, calls |-> <<>>]
setPageSize(c, size) ==
    [c EXCEPT !.pageSize = size,
              !.calls = Append(@, Call("setPageSize", size[1], size[2], 0, <<>>))]
showPage(c) ==
    [c EXCEPT !.pages = @ + 1,
              !.calls = Append(@, Call("showPage", 0, 0, 0, <<>>))]
saveState(c) ==
    [c EXCEPT !.gstack = Append(@, c.ctm),
              !.calls = Append(@, Call("saveState", 0, 0, 0, <<>>))]
translate(c, dx, dy) ==
    [c EXCEPT !.ctm = <<@[1] + dx, @[2] + dy>>,
              !.calls = Append(@, Call("translate", dx, dy, 0, <<>>))]
restoreState(c) ==
    [c EXCEPT !.ctm = c.gstack[Len(c.gstack)],
              !.gstack = SubSeq(@, 1, Len(@) - 1),
              !.calls = Append(@, Call("restoreState", 0, 0, 0, <<>>))]
save(c) ==
    [c EXCEPT !.saved = TRUE,
              !.calls = Append(@, Call("save", 0, 0, 0, <<>>))]

\* --------------------------------------------------------- LabelType
pagesizes == [A4 |-> <<595, 842>>]
find_page_size(name) ==
    IF name \in DOMAIN pagesizes /\ Len(pagesizes[name]) = 2
    THEN [size |-> pagesizes[name], errors |-> <<>>]
    ELSE [size |-> NoneSize, errors |-> <<"Page size not known">>]

LabelTypeNumericColumns ==
    {"Left", "HorPitch", "Width", "Columns", "Top", "VerPitch", "Height", "Rows"}

\* LabelType(parameters): the instance, or the exception __init__ raises.
LabelType_init(parameters) ==
    LET found == find_page_size(parameters.PageSize)
    IN  IF \E col \in LabelTypeNumericColumns : ~IsInt(parameters[col])
        THEN [exc |-> "ValueError", errors |-> found.errors, self |-> EmptyDict]
        ELSE IF found.size = NoneSize
        THEN [exc |-> "TypeError", errors |-> found.errors, self |-> EmptyDict]
        ELSE [exc |-> None, errors |-> found.errors,
              self |->
                [name |-> parameters.Name,
                 page_size |-> found.size,
                 left |-> IntOf(parameters.Left),
                 hor_pitch |-> IntOf(parameters.HorPitch),
                 width |-> IntOf(parameters.Width),
                 columns |-> IntOf(parameters.Columns),
                 top |-> IntOf(parameters.Top),
                 ver_pitch |-> IntOf(parameters.VerPitch),
                 height |-> IntOf(parameters.Height),
                 rows |-> IntOf(parameters.Rows),
                 bottom |-> found.size[2] - IntOf(parameters.Top)
                              - IntOf(parameters.Rows) * IntOf(parameters.VerPitch),
                 labels_per_page |-> IntOf(parameters.Rows) * IntOf(parameters.Columns)]]

LabelType_check_header(header_ok) ==
    IF header_ok THEN <<>> ELSE <<"Label file must have a column">>

\* LabelType.read_file on a file of at most one row: the dictionary of
\* types (the first also keyed on None), or the exception raised.
LabelType_read_file(header_ok, rows) ==
    IF Len(LabelType_check_header(header_ok)) > 0
    THEN [exc |-> None, errors |-> LabelType_check_header(header_ok),
          types |-> EmptyDict]
    ELSE IF rows = <<>>
    THEN [exc |-> None, errors |-> <<>>, types |-> EmptyDict]
    ELSE LET lt == LabelType_init(rows[1])
         IN  IF lt.exc # None
             THEN [exc |-> lt.exc, errors |-> lt.errors, types |-> EmptyDict]
             ELSE [exc |-> None, errors |-> lt.errors,
                   types |-> SetItem(SetItem(EmptyDict, lt.self.name, lt.self),
                                     None, lt.self)]

start_label_run(self, c) ==
    IF self.page_size # NoneSize THEN setPageSize(c, self.page_size) ELSE c

\* Mutants of the slot arithmetic and the page-break test.
RowOf_noWrap(self, label_number) ==
    self.rows - 1 - (label_number \div self.columns)
ColumnOf_byRows(self, label_number) ==
    label_number % self.rows
IsPageBreak_noFirstGuard(self, label_number) ==
    (label_number % self.labels_per_page) = 0

RowOf(self, label_number) ==
    self.rows - 1 - ((label_number \div self.columns) % self.rows)
ColumnOf(self, label_number) ==
    label_number % self.columns
IsPageBreak(self, label_number) ==
    label_number > 0 /\ (label_number % self.labels_per_page) = 0

start_label(self, c, label_number) ==
    LET row == RowOf(self, label_number)
        column == ColumnOf(self, label_number)
        c1 == IF IsPageBreak(self, label_number) THEN showPage(c) ELSE c
        c2 == saveState(c1)
    IN  translate(c2, self.left + column * self.hor_pitch,
                      self.bottom + row * self.ver_pitch)

\* Mutant: end_label that leaves the saved state on the stack.
end_label_noRestore(self, c, label_number) == c

end_label(self, c, label_number) == restoreState(c)

end_label_run(self, c, label_count) == showPage(c)

\* -------------------------------------------------------- LabelField
Formats == {<<"beer">>, <<"num">>}

LabelField_check_header(header_ok) ==
    IF header_ok THEN <<>> ELSE <<"Field file must have a column">>

LabelField_init(parameters, lt) ==
    IF ~IsInt(parameters.X)
    THEN [exc |-> "ValueError", self |-> EmptyDict]
    ELSE [exc |-> None,
          self |-> [x |-> IntOf(parameters.X) * lt.width,
                    format |-> parameters.Format]]

\* LabelField.read_file: the list of fields ([] on a bad header), or the
\* exception the first malformed row raises.
LabelField_read_file(header_ok, rows, lt) ==
    IF Len(LabelField_check_header(header_ok)) > 0
    THEN [exc |-> None, errors |-> LabelField_check_header(header_ok),
          fields |-> <<>>]
    ELSE IF \E j \in 1 .. Len(rows) : LabelField_init(rows[j], lt).exc # None
    THEN [exc |-> "ValueError", errors |-> <<>>, fields |-> <<>>]
    ELSE [exc |-> None, errors |-> <<>>,
          fields |-> [j \in 1 .. Len(rows) |-> LabelField_init(rows[j], lt).self]]

\* self.format % record succeeds iff every referenced column is a key.
FormatOk(format, record) ==
    \A j \in 1 .. Len(format) : format[j] \in DOMAIN record
FormatText(format, record) ==
    [j \in 1 .. Len(format) |-> record[format[j]]]

\* LabelField.render, k being the field's position in the list (recorded
\* with the draw call).
render(self, c, record, k) ==
    [c EXCEPT !.calls = Append(@, Call("draw", c.ctm[1] + self.x, c.ctm[2],
                                       k, FormatText(self.format, record)))]

\* --------------------------------------------------------- the inputs
LabelTypeNames == {None, "L1", "L9"}
LabelRows(maxCols, maxRows) ==
    {[Name |-> "L1", PageSize |-> ps, Left |-> "3", HorPitch |-> "7",
      Width |-> "6", Columns |-> cols, Top |-> "4", VerPitch |-> "9",
      Height |-> "8", Rows |-> DecStr(r)] :
        ps \in {"A4", "B99"},
        cols \in {DecStr(n) : n \in 1 .. maxCols} \cup {"x"},
        r \in 1 .. maxRows}
LabelFiles == {<<>>} \cup {<<r>> : r \in LabelRows(MaxCols, MaxRows)}

FieldRows == {[X |-> x, Format |-> f] : x \in {"0", "x"}, f \in Formats}
SeqsUpTo(S, n) == UNION {[1 .. m -> S] : m \in 0 .. n}
FieldFiles == SeqsUpTo(FieldRows, MaxFields)

DataHeader == <<"qty", "beer">>
QtyCells == {DecStr(n) : n \in -1 .. MaxQty} \cup {"x"}
\* A blank line, a line cut short after its quantity, and full lines.
DataRows ==
    {<<>>, <<"1">>} \cup {<<q, "IPA">> : q \in QtyCells}

\* --------------------------------------------------------------- Init
Init ==
    /\ pc = "get_label_type"
    /\ exc = None
    /\ log = <<>>
    /\ label_type = EmptyDict
    /\ label_fields = <<>>
    /\ canvas = NewCanvas
    /\ gen = [mode |-> "none", quantity |-> None, enum |-> None,
              state |-> "outer", row |-> 0, cask |-> 0, n |-> 0, count |-> 0,
              exhausted |-> FALSE]
    /\ heap = <<>>
    /\ locals = EmptyDict
    /\ fieldIdx = 0
    /\ source = <<>>
    /\ yielded = <<>>
    /\ slots = <<>>

\* ------------------------------------------------------ create_labels
\* get_label_type: read the label file, look the type up, exit if absent.
GetLabelType ==
    /\ pc = "get_label_type"
    /\ \E header_ok \in BOOLEAN, rows \in LabelFiles, name \in LabelTypeNames :
         LET r == LabelType_read_file(header_ok, rows)
         IN  IF r.exc # None
             THEN /\ exc' = r.exc
                  /\ pc' = "error"
                  /\ log' = log \o r.errors
                  /\ UNCHANGED label_type
             ELSE IF name \notin DOMAIN r.types
             THEN /\ exc' = "SystemExit"
                  /\ pc' = "error"
                  /\ log' = (log \o r.errors) \o <<"Label type not known">>
                  /\ UNCHANGED label_type
             ELSE /\ label_type' = r.types[name]
                  /\ pc' = "read_fields"
                  /\ log' = log \o r.errors
                  /\ UNCHANGED exc
    /\ UNCHANGED <<label_fields, canvas, gen, heap, locals, fieldIdx, source,
                   yielded, slots>>

ReadFieldFile ==
    /\ pc = "read_fields"
    /\ \E header_ok \in BOOLEAN, rows \in FieldFiles :
         LET r == LabelField_read_file(header_ok, rows, label_type)
         IN  IF r.exc # None
             THEN /\ exc' = r.exc
                  /\ pc' = "error"
                  /\ UNCHANGED <<log, label_fields>>
             ELSE /\ label_fields' = r.fields
                  /\ log' = log \o r.errors
                  /\ pc' = "add_labels"
                  /\ UNCHANGED exc
    /\ UNCHANGED <<label_type, canvas, gen, heap, locals, fieldIdx, source,
                   yielded, slots>>

\* read_beers: the record stream expands quantities only when both options
\* are set.
\* Mutant: read_beers testing the quantity option alone.
UseRepeat_quantityOnly(quantity, enum) == quantity # None

UseRepeat(quantity, enum) == quantity # None /\ enum # None

\* create_labels builds the canvas and the generator (read_beers), and
\* add_labels starts the label run.
BeginAddLabels ==
    /\ pc = "add_labels"
    /\ \E quantity \in {None, "qty"}, enum \in {None, "num"} :
         gen' = [gen EXCEPT !.mode = IF UseRepeat(quantity, enum)
                                     THEN "repeat" ELSE "csv",
                            !.quantity = quantity, !.enum = enum]
    /\ canvas' = start_label_run(label_type, canvas)
    /\ pc' = "for_next"
    /\ UNCHANGED <<exc, log, label_type, label_fields, heap, locals, fieldIdx,
                   source, yielded, slots>>

\* ------------------------------------------------- the record stream
\* Mutants: an inclusive range, and a counter read after the whole group
\* was produced.
RangeHasNext_inclusive(cask, n) == cask <= n
CounterAtYield_groupEnd(cask, n) == n

\* range(n) still has the value cask to give.
RangeHasNext(cask, n) == cask < n
\* row[enum] = cask + 1
CounterAtYield(cask, n) == cask + 1

\* The for loop of add_labels binds i (enumerate's counter) and data_fields
\* (the reference yielded, not a copy) and enters its body.
Deliver(ref, h, g) ==
    /\ locals' = SetItem(SetItem(locals, "i", g.count), "data_fields", ref)
    /\ gen' = [g EXCEPT !.count = @ + 1]
    /\ yielded' = Append(yielded, [src |-> ref, rec |-> h[ref]])
    /\ heap' = h
    /\ pc' = "start_label"
    /\ UNCHANGED exc

\* Mutant: a render error that is recorded and skipped over.
Raise_continue(e) ==
    /\ exc' = e
    /\ pc' = IF pc = "render" THEN "end_label" ELSE "error"

Raise(e) ==
    /\ exc' = e
    /\ pc' = "error"

\* next() on read_csv's generator, unwrapped: a new dictionary or the end.
NextPassthrough ==
    /\ pc = "for_next"
    /\ gen.mode = "csv"
    /\ \/ /\ pc' = "end_run"
          /\ gen' = [gen EXCEPT !.exhausted = TRUE]
          /\ UNCHANGED <<exc, heap, locals, source, yielded>>
       \/ /\ Len(source) < MaxRecords
          /\ \E row \in DataRows :
               /\ source' = Append(source, Dict(DataHeader, row))
               /\ Deliver(Len(heap) + 1, Append(heap, Dict(DataHeader, row)), gen)
    /\ UNCHANGED <<log, label_type, label_fields, canvas, fieldIdx, slots>>

\* repeat_casks at its outer loop: take the next source row and enter the
\* inner loop, whose first pass (if any) yields.
GenOuter ==
    /\ pc = "for_next"
    /\ gen.mode = "repeat"
    /\ gen.state = "outer"
    /\ \/ /\ pc' = "end_run"
          /\ gen' = [gen EXCEPT !.exhausted = TRUE]
          /\ UNCHANGED <<exc, heap, locals, source, yielded>>
       \/ /\ Len(source) < MaxRecords
          /\ \E cells \in DataRows :
               LET row == Dict(DataHeader, cells)
                   ref == Len(heap) + 1
               IN  /\ source' = Append(source, row)
                   /\ IF gen.quantity \notin DOMAIN row
                      THEN /\ Raise("KeyError")
                           /\ heap' = Append(heap, row)
                           /\ UNCHANGED <<gen, locals, yielded>>
                      ELSE IF ~IsInt(row[gen.quantity])
                      THEN /\ Raise("ValueError")
                           /\ heap' = Append(heap, row)
                           /\ UNCHANGED <<gen, locals, yielded>>
                      ELSE LET n == IntOf(row[gen.quantity])
                           IN  IF RangeHasNext(0, n)
                               THEN Deliver(ref,
                                      Append(heap, SetItem(row, gen.enum,
                                                           CounterAtYield(0, n))),
                                      [gen EXCEPT !.state = "inner", !.row = ref,
                                                  !.cask = 0, !.n = n])
                               ELSE /\ heap' = Append(heap, row)
                                    /\ UNCHANGED <<pc, exc, gen, locals, yielded>>
    /\ UNCHANGED <<log, label_type, label_fields, canvas, fieldIdx, slots>>

\* repeat_casks resumed after a yield: the next pass of the inner loop
\* rewrites the counter of the same dictionary and yields it again, or the
\* inner loop ends.
GenInner ==
    /\ pc = "for_next"
    /\ gen.mode = "repeat"
    /\ gen.state = "inner"
    /\ IF RangeHasNext(gen.cask + 1, gen.n)
       THEN Deliver(gen.row,
                    [heap EXCEPT ![gen.row] =
                        SetItem(@, gen.enum, CounterAtYield(gen.cask + 1, gen.n))],
                    [gen EXCEPT !.cask = @ + 1])
       ELSE /\ gen' = [gen EXCEPT !.state = "outer"]
            /\ UNCHANGED <<pc, exc, heap, locals, yielded>>
    /\ UNCHANGED <<log, label_type, label_fields, canvas, fieldIdx, source, slots>>

\* --------------------------------------------------------- add_labels
StartLabel ==
    /\ pc = "start_label"
    /\ canvas' = start_label(label_type, canvas, locals.i)
    /\ slots' = Append(slots, [column |-> ColumnOf(label_type, locals.i),
                                row |-> RowOf(label_type, locals.i),
                                page |-> canvas'.pages])
    /\ fieldIdx' = 1
    /\ pc' = IF label_fields = <<>> THEN "end_label" ELSE "render"
    /\ UNCHANGED <<exc, log, label_type, label_fields, gen, heap, locals,
                   source, yielded>>

Render ==
    /\ pc = "render"
    /\ LET field == label_fields[fieldIdx]
           record == heap[locals.data_fields]
       IN  IF FormatOk(field.format, record)
           THEN /\ canvas' = render(field, canvas, record, fieldIdx)
                /\ IF fieldIdx < Len(label_fields)
                   THEN fieldIdx' = fieldIdx + 1 /\ pc' = "render"
                   ELSE fieldIdx' = fieldIdx /\ pc' = "end_label"
                /\ UNCHANGED exc
           ELSE /\ Raise("KeyError")
                /\ UNCHANGED <<canvas, fieldIdx>>
    /\ UNCHANGED <<log, label_type, label_fields, gen, heap, locals, source,
                   yielded, slots>>

EndLabel ==
    /\ pc = "end_label"
    /\ canvas' = end_label(label_type, canvas, locals.i)
    /\ pc' = "for_next"
    /\ UNCHANGED <<exc, log, label_type, label_fields, gen, heap, locals,
                   fieldIdx, source, yielded, slots>>

\* label_type.end_label_run(canvas, i + 1): i is unbound when the loop
\* body never ran.
EndLabelRun ==
    /\ pc = "end_run"
    /\ IF "i" \in DOMAIN locals
       THEN /\ canvas' = end_label_run(label_type, canvas, locals.i + 1)
            /\ pc' = "save"
            /\ UNCHANGED exc
       ELSE /\ Raise("UnboundLocalError")
            /\ UNCHANGED canvas
    /\ UNCHANGED <<log, label_type, label_fields, gen, heap, locals, fieldIdx,
                   source, yielded, slots>>

Save ==
    /\ pc = "save"
    /\ canvas' = save(canvas)
    /\ pc' = "done"
    /\ UNCHANGED <<exc, log, label_type, label_fields, gen, heap, locals,
                   fieldIdx, source, yielded, slots>>

Next ==
    \/ GetLabelType
    \/ ReadFieldFile
    \/ BeginAddLabels
    \/ NextPassthrough
    \/ GenOuter
    \/ GenInner
    \/ StartLabel
    \/ Render
    \/ EndLabel
    \/ EndLabelRun
    \/ Save

Spec == Init /\ [][Next]_vars

\* ------------------------------------------------ start_label alone
\* start_label applied to any label number on any grid, on a fresh canvas.
InitGeom ==
    /\ pc = "start_label"
    /\ exc = None
    /\ log = <<>>
    /\ \E p \in LabelRows(GeomMaxCols, GeomMaxRows) :
         /\ LabelType_init(p).exc = None
         /\ label_type = LabelType_init(p).self
    /\ label_fields = <<>>
    /\ canvas = NewCanvas
    /\ gen = [mode |-> "csv", quantity |-> None, enum |-> None,
              state |-> "outer", row |-> 0, cask |-> 0, n |-> 0, count |-> 0,
              exhausted |-> FALSE]
    /\ heap = <<>>
    /\ \E n \in 0 .. MaxLabelNumber : locals = SetItem(EmptyDict, "i", n)
    /\ fieldIdx = 0
    /\ source = <<>>
    /\ yielded = <<>>
    /\ slots = <<>>

NextGeom == StartLabel

SpecGeom == InitGeom /\ [][NextGeom]_vars

\* ===================================================== the properties
\* The canvas calls, the records delivered and the slots are histories that
\* only grow, and every prefix of a run is a reachable state.  A property of
\* every label is therefore stated of the label in hand (or of the step that
\* makes the calls) and checked in every reachable state (or step).
Max(a, b) == IF a > b THEN a ELSE b
Calls == canvas.calls
Lpp == label_type.labels_per_page
CeilDiv(a, b) == (a + b - 1) \div b
CountOp(op) == Cardinality({m \in 1 .. Len(Calls) : Calls[m].op = op})
LastCall == Calls[Len(Calls)]
InLabel == pc \in {"render", "end_label"}
BetweenLabels == pc \in {"for_next", "start_label", "end_run", "save", "done"}
RunCompleted == pc \in {"save", "done"}

\* C1: a run over n >= 1 records commits a page exactly ceil(n /
\* labels_per_page) times: in start_label of each label i > 0 with
\* i mod labels_per_page = 0 and of no other, and exactly once after the last
\* label; label i is drawn on page i div labels_per_page.
C1_PageCommits ==
    /\ pc = "start_label" =>
         canvas.pages = IF locals.i = 0 THEN 0 ELSE (locals.i - 1) \div Lpp
    /\ InLabel =>
         /\ canvas.pages = locals.i \div Lpp
         /\ slots[locals.i + 1].page = locals.i \div Lpp
         /\ canvas.pages = (IF locals.i = 0 THEN 0 ELSE (locals.i - 1) \div Lpp)
                            + (IF locals.i > 0 /\ locals.i % Lpp = 0 THEN 1 ELSE 0)
    /\ pc = "end_run" /\ gen.count >= 1 =>
         canvas.pages = (gen.count - 1) \div Lpp
    /\ RunCompleted =>
         /\ gen.count >= 1
         /\ canvas.pages = CeilDiv(gen.count, Lpp)
         /\ canvas.pages = (gen.count - 1) \div Lpp + 1
         /\ CountOp("showPage") = canvas.pages
         /\ Calls[Len(Calls) - (IF pc = "done" THEN 1 ELSE 0)].op = "showPage"

\* C1 witness: five records on a 2 x 2 grid end with two committed pages.
C1_Witness ==
    /\ pc = "done"
    /\ gen.count = 5
    /\ label_type.columns = 2 /\ label_type.rows = 2
    /\ canvas.pages = 2

\* C2: with an empty record stream the run still ends normally, with
\* exactly one page commit followed by the save, and no error.
C2_EmptyStreamCommits ==
    (gen.exhausted /\ gen.count = 0 /\ pc # "end_run") =>
        /\ exc = None
        /\ pc \in {"save", "done"}
        /\ canvas.pages = 1
        /\ CountOp("showPage") = 1

Grid == (0 .. label_type.columns - 1) \X (0 .. label_type.rows - 1)
SlotAt(n) == <<slots[n].column, slots[n].row>>

\* C3: the labels drawn between two page commits go to pairwise distinct
\* slots, left to right along a row and then down from the top row; the
\* labels p * labels_per_page .. (p + 1) * labels_per_page - 1 are on one
\* page and cover the grid.
C3_SlotsDistinct ==
    Len(slots) > 0 =>
        LET n == Len(slots)
        IN  /\ SlotAt(n) \in Grid
            /\ \A a \in 1 .. (n - 1) :
                 slots[a].page = slots[n].page => SlotAt(a) # SlotAt(n)
            /\ (n - 1) % Lpp = 0 => SlotAt(n) = <<0, label_type.rows - 1>>
            /\ (n - 1) % Lpp # 0 =>
                 /\ slots[n].page = slots[n - 1].page
                 /\ SlotAt(n) = IF slots[n - 1].column < label_type.columns - 1
                                THEN <<slots[n - 1].column + 1, slots[n - 1].row>>
                                ELSE <<0, slots[n - 1].row - 1>>
            /\ n % Lpp = 0 =>
                 /\ {SlotAt(a) : a \in (n - Lpp + 1) .. n} = Grid
                 /\ \A a \in (n - Lpp + 1) .. n : slots[a].page = slots[n].page
                 /\ \A a \in 1 .. (n - Lpp) : slots[a].page < slots[n].page

\* C3 witness: a full page of a 2 x 2 grid followed by a label on the next.
C3_Witness ==
    /\ Len(slots) = 5
    /\ label_type.columns = 2 /\ label_type.rows = 2
    /\ SlotAt(4) = <<1, 0>> /\ slots[4].page = 0
    /\ SlotAt(5) = <<0, 1>> /\ slots[5].page = 1

\* The slot origin as the design states it, from the position on the page.
SlotOriginStated(lt, labelIndex) ==
    LET positionOnPage == labelIndex % (lt.columns * lt.rows)
        rowFromTop == positionOnPage \div lt.columns
        row == lt.rows - 1 - (rowFromTop % lt.rows)
        column == positionOnPage % lt.columns
    IN  [column |-> column, row |-> row,
         x |-> lt.left + column * lt.hor_pitch,
         y |-> lt.bottom + row * lt.ver_pitch]

\* C4: the column, row and translation start_label computes from the label
\* number equal the stated slotOrigin computed from the position on the
\* page; a label one page further gets the same origin, and label 0 is on
\* the top row.
C4_SlotOrigin ==
    (pc = "end_label" /\ Len(slots) = 1) =>
        LET i == locals.i
            o == SlotOriginStated(label_type, i)
        IN  /\ SlotAt(1) = <<o.column, o.row>>
            /\ canvas.ctm = <<o.x, o.y>>
            /\ ColumnOf(label_type, i + Lpp) = o.column
            /\ RowOf(label_type, i + Lpp) = o.row
            /\ SlotOriginStated(label_type, i + Lpp) = o
            /\ i = 0 => /\ slots[1].row = label_type.rows - 1
                        /\ canvas.ctm[2] = label_type.bottom
                              + (label_type.rows - 1) * label_type.ver_pitch

\* C4 witness: label 6 on a 3 x 2 grid is translated to the origin of
\* label 0, the left slot of the top row.
C4_Witness ==
    /\ pc = "end_label"
    /\ locals.i = 6
    /\ label_type.columns = 3 /\ label_type.rows = 2
    /\ SlotAt(1) = <<0, 1>>
    /\ canvas.ctm = <<label_type.left, label_type.bottom + label_type.ver_pitch>>

\* The expansion as the design states it: each record max(q, 0) times, the
\* k-th copy with the counter field set to k.
QuantityStated(r, quantity) ==
    IF quantity \in DOMAIN r /\ IsInt(r[quantity]) THEN IntOf(r[quantity]) ELSE 0
GroupStated(r, quantity, enum) ==
    [k \in 1 .. Max(QuantityStated(r, quantity), 0) |-> SetItem(r, enum, k)]
RECURSIVE ExpandStated(_, _, _)
ExpandStated(src, quantity, enum) ==
    IF src = <<>> THEN <<>>
    ELSE GroupStated(Head(src), quantity, enum)
            \o ExpandStated(Tail(src), quantity, enum)
RECURSIVE SumQuantities(_, _)
SumQuantities(src, quantity) ==
    IF src = <<>> THEN 0
    ELSE QuantityStated(Head(src), quantity) + SumQuantities(Tail(src), quantity)
YieldedFrom(r) == {j \in 1 .. Len(yielded) : yielded[j].src = r}

C6_PassThrough ==
    (gen.mode # "none" /\ (gen.quantity = None \/ gen.enum = None)) =>
        /\ Len(yielded) = Len(source)
        /\ \A j \in 1 .. Len(yielded) :
             yielded[j].src = j /\ yielded[j].rec = source[j]
        /\ heap = source
        /\ exc # "ValueError"

\* C6 witness: only the quantity option given, a non-numeric quantity in the
\* first of two records, and the run completed.
C6_Witness ==
    /\ pc = "done"
    /\ gen.quantity = "qty" /\ gen.enum = None
    /\ Len(yielded) = 2
    /\ "qty" \in DOMAIN source[1]
    /\ source[1]["qty"] = "x"

\* C7: once a configuration error is detected (a logged error, or a
\* malformed number while the files are read) no label is started, no field
\* rendered, no page committed and the document is not saved.
ConfigErrorDetected ==
    \/ log # <<>>
    \/ gen.mode = "none" /\ exc \in {"ValueError", "TypeError"}
C7_ConfigErrorAborts ==
    ConfigErrorDetected =>
        /\ ~canvas.saved
        /\ \A j \in 1 .. Len(Calls) :
             Calls[j].op \notin {"saveState", "translate", "draw", "showPage", "save"}

FieldResolves(k, rec) ==
    \A t \in 1 .. Len(label_fields[k].format) :
        label_fields[k].format[t] \in DOMAIN rec

\* C8: add_labels gets past a field only with every column its template
\* references present in the record; a missing column or a non-numeric
\* quantity raises at that record, and after it nothing more is rendered, no
\* page is committed and nothing is saved.
C8_TemplateErrorFatal ==
    /\ pc = "render" =>
         \A k \in 1 .. (fieldIdx - 1) : FieldResolves(k, heap[locals.data_fields])
    /\ pc = "end_label" =>
         \A k \in 1 .. Len(label_fields) : FieldResolves(k, heap[locals.data_fields])
    /\ (Calls # <<>> /\ LastCall.op = "draw") =>
         /\ FieldResolves(LastCall.k, yielded[Len(yielded)].rec)
         /\ Len(LastCall.text) = Len(label_fields[LastCall.k].format)
    /\ gen.mode = "repeat" =>
         \A r \in 1 .. Len(source) :
            (gen.quantity \in DOMAIN source[r] /\ ~IsInt(source[r][gen.quantity]))
            => /\ r = Len(source)
               /\ exc = "ValueError"
               /\ Len(yielded) > 0 => yielded[Len(yielded)].src < r
    /\ (gen.mode # "none" /\ exc \in {"KeyError", "ValueError"}) =>
         /\ pc = "error"
         /\ ~canvas.saved
         /\ LastCall.op \notin {"showPage", "save"}
         /\ canvas.pages = IF Len(slots) = 0 THEN 0 ELSE (Len(slots) - 1) \div Lpp
         /\ Len(canvas.gstack) = 1 =>
              /\ exc = "KeyError"
              /\ ~FieldResolves(fieldIdx, heap[locals.data_fields])
              /\ LastCall.op \in {"translate", "draw"}
              /\ LastCall.op = "draw" => LastCall.k = fieldIdx - 1
              /\ LastCall.op = "translate" => fieldIdx = 1
         /\ Len(canvas.gstack) = 0 =>
              /\ gen.mode = "repeat"
              /\ LastCall.op \in {"setPageSize", "restoreState"}
              /\ IF exc = "KeyError"
                 THEN gen.quantity \notin DOMAIN source[Len(source)]
                 ELSE ~IsInt(source[Len(source)][gen.quantity])

\* C8 witness: the first label was drawn, the second record lacks a column
\* the field references, and the run stopped there.
C8_Witness ==
    /\ pc = "error" /\ exc = "KeyError"
    /\ Len(slots) = 2
    /\ LastCall.op = "translate"
    /\ CountOp("draw") = 1

\* One canvas call may follow another within add_labels, for the label i
\* in hand.
Follows(a, b, i) ==
    CASE a.op = "setPageSize" -> b.op = "saveState" /\ i = 0
      [] a.op = "showPage" ->
            \/ b.op = "save"
            \/ b.op = "saveState" /\ i > 0 /\ i % Lpp = 0
      [] a.op = "saveState" ->
            /\ b.op = "translate"
            /\ b.x = SlotOriginStated(label_type, i).x
            /\ b.y = SlotOriginStated(label_type, i).y
      [] a.op = "translate" ->
            IF label_fields = <<>> THEN b.op = "restoreState"
            ELSE b.op = "draw" /\ b.k = 1
      [] a.op = "draw" ->
            /\ a.x = SlotOriginStated(label_type, i).x + label_fields[a.k].x
            /\ a.y = SlotOriginStated(label_type, i).y
            /\ IF a.k < Len(label_fields)
               THEN b.op = "draw" /\ b.k = a.k + 1
               ELSE b.op = "restoreState"
      [] a.op = "restoreState" ->
            \/ b.op = "showPage"
            \/ b.op = "saveState" /\ i % Lpp # 0
      [] OTHER -> FALSE
CallsInOrder ==
    \A j \in (Len(canvas.calls) + 1) .. Len(canvas'.calls) :
        IF j = 1 THEN canvas'.calls[j].op = "setPageSize"
        ELSE Follows(canvas'.calls[j - 1], canvas'.calls[j],
                     IF "i" \in DOMAIN locals THEN locals.i ELSE 0)
DepthAndOrigin ==
    /\ InLabel =>
         /\ Len(canvas.gstack) = 1
         /\ canvas.ctm = <<SlotOriginStated(label_type, locals.i).x,
                           SlotOriginStated(label_type, locals.i).y>>
    /\ BetweenLabels =>
         /\ Len(canvas.gstack) = 0
         /\ canvas.ctm = <<0, 0>>
    /\ (Calls # <<>> /\ LastCall.op = "draw") =>
         /\ pc \in {"render", "end_label", "error"}
         /\ LastCall.k = IF pc = "end_label" THEN Len(label_fields) ELSE fieldIdx - 1

\* C9: per label the canvas sees: page commit (at a page boundary only),
\* saveState, translate to the slot origin of the label, every field once
\* in declaration order, restoreState.  The saved-state depth is 0 at every
\* page commit and at the end, 1 at every field render, and the translation
\* in effect is the slot origin of the label in hand alone.
C9_CanvasOrder == [](DepthAndOrigin) /\ [][CallsInOrder]_vars

\* C9 witness: a completed run of three labels of two fields each, with a
\* page boundary inside it.
C9_Witness ==
    /\ pc = "done"
    /\ Len(label_fields) = 2
    /\ gen.count = 3
    /\ canvas.pages = 2
    /\ CountOp("draw") = 6

\* the 1-based position of the latest record among those of its source row
PositionInGroup == Cardinality(YieldedFrom(yielded[Len(yielded)].src))

OnePending ==
    /\ pc \in {"start_label", "render", "end_label"} =>
         /\ heap[locals.data_fields] = yielded[Len(yielded)].rec
         /\ locals.i = Len(yielded) - 1
         /\ gen.count = Len(yielded)
    /\ (gen.mode = "repeat" /\ Calls # <<>> /\ LastCall.op = "draw") =>
         \A t \in 1 .. Len(LastCall.text) :
            label_fields[LastCall.k].format[t] = gen.enum =>
               LastCall.text[t] = PositionInGroup
PullOnlyWhenIdle ==
    /\ (yielded' # yielded \/ heap' # heap \/ source' # source) =>
         /\ pc = "for_next"
         /\ Len(yielded') <= Len(yielded) + 1
         /\ Len(canvas.gstack) = 0
         /\ LastCall.op \in {"setPageSize", "restoreState"}
         /\ CountOp("restoreState") = Len(yielded)
    /\ pc \in {"start_label", "render", "end_label"} =>
         /\ yielded' = yielded
         /\ heap' = heap

\* C10: the record stream is pulled one record at a time: the next record
\* is requested (and the shared dictionary rewritten) only when the label of
\* the previous one is complete, so the dictionary a label is drawn from is
\* unchanged from its fetch to the end of its rendering and every field of
\* the k-th label of a group draws counter k.
C10_LazyPull == [](OnePending) /\ [][PullOnlyWhenIdle]_vars

\* C10 witness: the second field of the second label of a group drew
\* counter 2 from the dictionary whose counter was 1 for the first label.
C10_Witness ==
    /\ gen.mode = "repeat"
    /\ pc = "end_label"
    /\ Len(yielded) = 2
    /\ yielded[1].src = yielded[2].src
    /\ yielded[1].rec["num"] = 1
    /\ Len(label_fields) = 2
    /\ label_fields[2].format = <<"num">>
    /\ LastCall.op = "draw" /\ LastCall.k = 2 /\ LastCall.text = <<2>>
====
